---- MODULE Spec2Model ----
(***************************************************************************)
(* Model of the 2023 day 5 almanac resolver (src/2023/day5/src/lib.rs and  *)
(* src/2023/day5/src/utils.rs): half-open ranges of u64, RangeMap rules,    *)
(* the point resolver Almanac and the range resolver Almanac2; of the day 4 *)
(* scratchcard game (src/2023/day4/src/lib.rs) and of the day 7 scoring of  *)
(* plays (src/2023/day7/src/bin/part1.rs).                                  *)
(*                                                                         *)
(* A Range<u64> a..b is the record [start |-> a, end |-> b].               *)
(* Option<T> is a sequence: None is <<>>, Some(x) is <<x>>.                 *)
(* Vec<T> is a sequence.                                                   *)
(***************************************************************************)
EXTENDS Integers, Sequences, FiniteSets, TLC

VARIABLES
    pc,        \* position of the program: which object exists, which call returned
    almanac,   \* the Almanac built by the parser
    almanac2,  \* the Almanac2 built by From<Almanac>
    trace,     \* history of the fold in Almanac2::lowest_location_that_needs_a_seed
    result,    \* outcome of the call: a number, a panic, a plain return
    call,      \* a call of one of the library's pure functions: name and arguments
    ret        \* what that call returned

vars == <<pc, almanac, almanac2, trace, result, call, ret>>

----------------------------------------------------------------------------
(* Bounds of the model.                                                    *)

\* largest bound of a range handed to a pure function
MaxVal == 4
\* most rules in the stage handed to the per-stage step
MaxStageRules == 2
\* largest number on the "seeds:" line of a parsed almanac
MaxSeedVal == 2
\* most numbers on the "seeds:" line
MaxSeeds == 5
\* largest dest_start and source_start of a rule line of a parsed almanac
MaxRuleStart == 2
\* largest length of a rule line of a parsed almanac
MaxRuleLen == 1
\* most numbers in the text of a parsed almanac (a seed is 1, a rule line 3)
MaxTokens == 8

\* most ranges in a vector handed to merge_overlap
MaxVecLen == 2

\* most cards of a game of scratchcards
MaxCards == 3
\* largest id of a scratchcard
MaxCardId == 3
\* most matching numbers on a scratchcard
MaxMatches == 2

\* most plays handed to score
MaxPlays == 3
\* largest bid of a play
MaxBid == 2
\* largest number on a line of the text handed to Almanac::from_str
MaxLineVal == 1
\* most numbers on a "seeds:" line of that text
MaxLineSeeds == 1
\* most rules Almanac::from_str pushes before the text ends
MaxParsedRules == 2

\* the largest number of the scaled-down u64 of RangeMap::from_str
U64Max == 7

\* the seven categories of Almanac and Almanac2::maps()
NumStages == 7

----------------------------------------------------------------------------
(* Values.                                                                 *)

None == <<>>

Some(x) == <<x>>

Range(s, e) == [start |-> s, end |-> e]

Min(a, b) == IF a <= b THEN a ELSE b

Max(a, b) == IF a >= b THEN a ELSE b

\* u64::saturating_sub
saturating_sub(a, b) == IF a >= b THEN a - b ELSE 0

\* Range<u64>::contains
contains(r, v) == r.start <= v /\ v < r.end

----------------------------------------------------------------------------
(* utils.rs: Overlap for Range<u64>.                                       *)

overlaps(self, other) == self.start <= other.end /\ other.start <= self.end

\* a merge that adds the lengths of the two ranges
merge_adds_lengths(self, other) ==
    Range(Min(self.start, other.start),
          Min(self.start, other.start)
              + (self.end - self.start) + (other.end - other.start))

merge(self, other) ==
    Range(Min(self.start, other.start), Max(self.end, other.end))

----------------------------------------------------------------------------
(* lib.rs: MergeOverlap for Vec<Range<u64>>, the stable sort by start.     *)

\* a merge_overlap that pushes every range and merges none
merge_overlap_none(v) == v

RECURSIVE merge_overlap(_)
merge_overlap(v) ==
    IF v = <<>> THEN <<>>
    ELSE LET acc   == merge_overlap(SubSeq(v, 1, Len(v) - 1))
             range == v[Len(v)]
         IN  IF acc # <<>> /\ overlaps(acc[Len(acc)], range)
             THEN [acc EXCEPT ![Len(acc)] = merge(@, range)]
             ELSE Append(acc, range)

\* x goes behind every element whose start is not larger: the sort is stable
InsertByStart(s, x) ==
    LET p == Cardinality({i \in 1..Len(s) : s[i].start <= x.start})
    IN  SubSeq(s, 1, p) \o <<x>> \o SubSeq(s, p + 1, Len(s))

RECURSIVE sort_by_start(_)
sort_by_start(v) ==
    IF v = <<>> THEN <<>>
    ELSE InsertByStart(sort_by_start(SubSeq(v, 1, Len(v) - 1)), v[Len(v)])

----------------------------------------------------------------------------
(* lib.rs: RangeMap.                                                       *)

\* RangeMap::from_str on the line "dest_start source_start length"
RangeMapFromStr(dest_start, source_start, length) ==
    [dest |-> Range(dest_start, dest_start + length),
     src  |-> Range(source_start, source_start + length)]

\* the builds of the crate: overflow checks on (debug) or off (release)
Builds == {"debug", "release"}

\* u64 addition without overflow checks
wrapping_add(a, b) == (a + b) % (U64Max + 1)

Ok(x) == [kind |-> "ok", value |-> x]

\* the call unwound with a panic
Panic == [kind |-> "panic"]

\* RangeMap::from_str on a line of three numbers that parse as u64: the two
\* additions panic in a build with overflow checks and wrap in one without
RangeMap_from_str(dest_start, source_start, length, build) ==
    IF build = "debug"
          /\ (dest_start + length > U64Max \/ source_start + length > U64Max)
    THEN Panic
    ELSE Ok([dest |-> Range(dest_start, wrapping_add(dest_start, length)),
             src  |-> Range(source_start, wrapping_add(source_start, length))])

lookup_inclusive(self, value) ==
    IF self.src.start <= value /\ value <= self.src.end
    THEN Some(self.dest.start + (value - self.src.start))
    ELSE None

lookup(self, value) ==
    IF contains(self.src, value)
    THEN LET offset == value - self.src.start
         IN  Some(self.dest.start + offset)
    ELSE None

\* which of the branches of map_onto is taken for ranges that overlap
map_onto_case(self, input) ==
    IF self.src.start <= input.start /\ self.src.end >= input.end
    THEN "input within self"
    ELSE IF self.src.start >= input.start /\ self.src.end <= input.end
    THEN "self within input"
    ELSE IF self.src.start >= input.start /\ self.src.end >= input.end
    THEN "input start before self"
    ELSE IF self.src.start <= input.start /\ self.src.end <= input.end
    THEN "self starts before input"
    ELSE "unreachable"

\* branch "input within self" keeping the whole of dest
results_input_within_self_whole_dest(self, input) ==
    <<Range(self.dest.start, self.dest.end)>>

\* branch "input within self" of map_onto
results_input_within_self(self, input) ==
    LET start_diff == saturating_sub(input.start, self.src.start)
        end_diff   == saturating_sub(self.src.end, input.end)
        start      == self.dest.start + start_diff
        end        == self.dest.end - end_diff
    IN  <<Range(start, end)>>

\* branch "self within input" losing the fragment behind the source
results_self_within_input_no_end(self, input) ==
    <<Range(input.start, self.src.start), Range(self.dest.start, self.dest.end)>>

\* branch "self within input" of map_onto
results_self_within_input(self, input) ==
    LET front  == Range(input.start, self.src.start)
        middle == Range(self.dest.start, self.dest.end)
        end    == Range(self.src.end, input.end)
    IN  <<front, middle, end>>

\* branch "input start before self" of map_onto
results_input_start_before_self(self, input) ==
    LET front == Range(input.start, self.src.start)
        diff  == input.end - self.src.start
        end   == Range(self.dest.start, self.dest.start + diff)
    IN  <<front, end>>

\* branch "self starts before input" losing the fragment behind the source
results_self_starts_before_input_no_end(self, input) ==
    LET diff == self.src.end - input.start
    IN  <<Range(self.dest.end - diff, self.dest.end)>>

\* branch "self starts before input" of map_onto
results_self_starts_before_input(self, input) ==
    LET diff  == self.src.end - input.start
        front == Range(self.dest.end - diff, self.dest.end)
        end   == Range(self.src.end, input.end)
    IN  <<front, end>>

\* the vector `results` of map_onto before it is sorted
map_onto_results(self, input) ==
    CASE map_onto_case(self, input) = "input within self" ->
            results_input_within_self(self, input)
      [] map_onto_case(self, input) = "self within input" ->
            results_self_within_input(self, input)
      [] map_onto_case(self, input) = "input start before self" ->
            results_input_start_before_self(self, input)
      [] map_onto_case(self, input) = "self starts before input" ->
            results_self_starts_before_input(self, input)
      [] OTHER -> <<>>

\* a map_onto that shifts by the u64 difference dest.start - src.start
map_onto_panics_u64_offset(self, input) ==
    /\ overlaps(self.src, input)
    /\ self.dest.start < self.src.start

\* map_onto panics: the unreachable! branch, or a u64 subtraction below zero
map_onto_panics(self, input) ==
    /\ overlaps(self.src, input)
    /\ CASE map_onto_case(self, input) = "input within self" ->
                self.dest.end < saturating_sub(self.src.end, input.end)
         [] map_onto_case(self, input) = "self within input" -> FALSE
         [] map_onto_case(self, input) = "input start before self" ->
                input.end < self.src.start
         [] map_onto_case(self, input) = "self starts before input" ->
                \/ self.src.end < input.start
                \/ self.dest.end < self.src.end - input.start
         [] OTHER -> TRUE

map_onto(self, input) ==
    IF ~overlaps(self.src, input) THEN None
    ELSE Some(merge_overlap(sort_by_start(map_onto_results(self, input))))

----------------------------------------------------------------------------
(* lib.rs: Almanac, the point resolver.                                    *)

\* the fold with |a, b| b.or(a): the last rule that holds the value wins
RECURSIVE lookup_fold_last(_, _)
lookup_fold_last(maps, value) ==
    IF maps = <<>> THEN None
    ELSE LET a == lookup_fold_last(SubSeq(maps, 1, Len(maps) - 1), value)
             b == lookup(maps[Len(maps)], value)
         IN  IF b # None THEN b ELSE a

\* maps.iter().map(|map| map.lookup(value)).fold(None, |a, b| a.or(b))
RECURSIVE lookup_fold(_, _)
lookup_fold(maps, value) ==
    IF maps = <<>> THEN None
    ELSE LET a == lookup_fold(SubSeq(maps, 1, Len(maps) - 1), value)
             b == lookup(maps[Len(maps)], value)
         IN  IF a # None THEN a ELSE b

\* one closure of the chain: the fold, then unwrap_or(value)
lookup_stage(maps, value) ==
    LET found == lookup_fold(maps, value)
    IN  IF found # None THEN found[1] ELSE value

\* the chain with its last two closures exchanged
location_of_swapped(a, seed) ==
    LET soil        == lookup_stage(a.seed_to_soil_map, seed)
        fertilizer  == lookup_stage(a.soil_to_fertilizer_map, soil)
        water       == lookup_stage(a.fertilizer_to_water_map, fertilizer)
        light       == lookup_stage(a.water_to_light_map, water)
        temperature == lookup_stage(a.light_to_temperature_map, light)
        humidity    == lookup_stage(a.humidity_to_location_map, temperature)
    IN  lookup_stage(a.temperature_to_humidity_map, humidity)

\* the seven closures of Almanac::lowest_location_that_needs_a_seed, in order
location_of(a, seed) ==
    LET soil        == lookup_stage(a.seed_to_soil_map, seed)
        fertilizer  == lookup_stage(a.soil_to_fertilizer_map, soil)
        water       == lookup_stage(a.fertilizer_to_water_map, fertilizer)
        light       == lookup_stage(a.water_to_light_map, water)
        temperature == lookup_stage(a.light_to_temperature_map, light)
        humidity    == lookup_stage(a.temperature_to_humidity_map, temperature)
    IN  lookup_stage(a.humidity_to_location_map, humidity)

\* Iterator::min over a vector of numbers
IterMin(v) ==
    IF v = <<>> THEN None
    ELSE Some(CHOOSE m \in {v[i] : i \in 1..Len(v)} :
                 \A i \in 1..Len(v) : m <= v[i])

NoOutcome == [kind |-> "none", value |-> 0]

Returned(n) == [kind |-> "value", value |-> n]

Panicked == [kind |-> "panic", value |-> 0]

\* a call that returned to its caller; what it returned is in ret
Completed == [kind |-> "done", value |-> 0]

\* unwrap_or_default in the place of unwrap
UnwrapOrDefault(opt) == IF opt = None THEN Returned(0) ELSE Returned(opt[1])

\* Option::unwrap of the minimum
Unwrap(opt) == IF opt = None THEN Panicked ELSE Returned(opt[1])

Almanac_lowest_location_that_needs_a_seed(a) ==
    Unwrap(IterMin([i \in 1..Len(a.seeds) |-> location_of(a, a.seeds[i])]))

----------------------------------------------------------------------------
(* lib.rs: Almanac2, the range resolver.                                   *)

\* the conversion without step_by(2): every window of two gives an interval
Almanac2From_every_window(value) ==
    LET n       == Len(value.seeds)
        windows == IF n < 2 THEN 0 ELSE n - 1
        seeds   == [k \in 1..windows |->
                       Range(value.seeds[k], value.seeds[k] + value.seeds[k + 1])]
    IN  [value EXCEPT !.seeds = sort_by_start(seeds)]

\* value.seeds.windows(2).step_by(2).map(start..start + len), then the sort
Almanac2From(value) ==
    LET n       == Len(value.seeds)
        windows == IF n < 2 THEN 0 ELSE n \div 2
        seeds   == [k \in 1..windows |->
                       Range(value.seeds[2 * k - 1],
                             value.seeds[2 * k - 1] + value.seeds[2 * k])]
    IN  [value EXCEPT !.seeds = sort_by_start(seeds)]

\* Almanac2::maps
maps(a) ==
    <<a.seed_to_soil_map, a.soil_to_fertilizer_map, a.fertilizer_to_water_map,
      a.water_to_light_map, a.light_to_temperature_map,
      a.temperature_to_humidity_map, a.humidity_to_location_map>>

RECURSIVE Flatten(_)
Flatten(vs) ==
    IF vs = <<>> THEN <<>>
    ELSE Flatten(SubSeq(vs, 1, Len(vs) - 1)) \o vs[Len(vs)]

\* maps.iter().filter_map(|map| map.map_onto(range)).flatten().collect()
filter_map_onto(stage, range) ==
    Flatten([i \in 1..Len(stage) |->
                LET r == map_onto(stage[i], range)
                IN  IF r = None THEN <<>> ELSE r[1]])

\* the closure handed to flat_map: what one stage makes of one range
stage_ranges(stage, range) ==
    LET results == filter_map_onto(stage, range)
    IN  IF results = <<>> THEN <<range>>
        ELSE merge_overlap(sort_by_start(results))

\* that closure unwinds when one of its map_onto calls panics
stage_ranges_panics(stage, range) ==
    \E i \in 1..Len(stage) : map_onto_panics(stage[i], range)

\* the closure handed to fold, kept per input range
fold_step(ranges, stage) ==
    [i \in 1..Len(ranges) |-> stage_ranges(stage, ranges[i])]

\* the accumulator of the fold after each of the first k stages
RECURSIVE fold_trace(_, _)
fold_trace(a, k) ==
    IF k = 0 THEN <<>>
    ELSE LET before == fold_trace(a, k - 1)
             ranges == IF k = 1 THEN a.seeds ELSE Flatten(before[k - 1])
         IN  Append(before, fold_step(ranges, maps(a)[k]))

\* the vector `locations`: the accumulator after the last stage, sorted
sorted_locations(folded) == sort_by_start(Flatten(folded[NumStages]))

\* the filter that lets every start through
all_starts(locations) == [i \in 1..Len(locations) |-> locations[i].start]

\* locations.iter().filter(|x| x.start != 0).map(|range| range.start)
nonzero_starts(locations) ==
    LET kept == SelectSeq(locations, LAMBDA x : x.start # 0)
    IN  [i \in 1..Len(kept) |-> kept[i].start]

\* what Almanac2::lowest_location_that_needs_a_seed returns once the fold is done
lowest_of_fold(folded) ==
    Unwrap(IterMin(nonzero_starts(sorted_locations(folded))))

----------------------------------------------------------------------------
(* The program: an almanac is parsed, then part 1 asks the Almanac for the *)
(* lowest location, part 2 converts it to an Almanac2 and asks that.       *)

\* the numbers a "seeds:" line can hold
SeedLists == UNION {[1..n -> 0..MaxSeedVal] : n \in 0..MaxSeeds}

\* a rule line and the category it stands under
RuleLines ==
    {<<k, d, s, l>> : k \in 1..NumStages, d \in 0..MaxRuleStart,
                      s \in 0..MaxRuleStart, l \in 0..MaxRuleLen}

\* the rule lines of a text: the categories follow each other in the fixed order
RuleTexts ==
    {t \in UNION {[1..n -> RuleLines] : n \in 0..(MaxTokens \div 3)} :
        \A i \in 1..(Len(t) - 1) : t[i][1] <= t[i + 1][1]}

\* the rules pushed for category k, in the order of their lines
ParsedStage(text, k) ==
    LET lines == SelectSeq(text, LAMBDA line : line[1] = k)
    IN  [i \in 1..Len(lines) |->
            RangeMapFromStr(lines[i][2], lines[i][3], lines[i][4])]

\* the Almanac that Almanac::from_str returns for the seeds and the rule lines
ParsedAlmanac(seeds, text) ==
    [seeds                       |-> seeds,
     seed_to_soil_map            |-> ParsedStage(text, 1),
     soil_to_fertilizer_map      |-> ParsedStage(text, 2),
     fertilizer_to_water_map     |-> ParsedStage(text, 3),
     water_to_light_map          |-> ParsedStage(text, 4),
     light_to_temperature_map    |-> ParsedStage(text, 5),
     temperature_to_humidity_map |-> ParsedStage(text, 6),
     humidity_to_location_map    |-> ParsedStage(text, 7)]

NoCall == [fn |-> "none"]

Init ==
    /\ pc = "almanac"
    /\ \E seeds \in SeedLists, text \in RuleTexts :
          /\ Len(seeds) + 3 * Len(text) <= MaxTokens
          /\ almanac = ParsedAlmanac(seeds, text)
    /\ almanac2 = None
    /\ trace = <<>>
    /\ result = NoOutcome
    /\ call = NoCall
    /\ ret = None

\* part 1: almanac.lowest_location_that_needs_a_seed()
Lowest ==
    /\ pc = "almanac"
    /\ result' = Almanac_lowest_location_that_needs_a_seed(almanac)
    /\ pc' = "lowest"
    /\ UNCHANGED <<almanac, almanac2, trace, call, ret>>

\* part 2: let almanac: Almanac2 = almanac.into()
From ==
    /\ pc = "almanac"
    /\ almanac2' = Almanac2From(almanac)
    /\ pc' = "almanac2"
    /\ UNCHANGED <<almanac, trace, result, call, ret>>

\* part 2: almanac.lowest_location_that_needs_a_seed() on the Almanac2
Lowest2 ==
    /\ pc = "almanac2"
    /\ trace' = fold_trace(almanac2, NumStages)
    /\ result' = lowest_of_fold(trace')
    /\ pc' = "lowest2"
    /\ UNCHANGED <<almanac, almanac2, call, ret>>

Next == Lowest \/ From \/ Lowest2

Spec == Init /\ [][Next]_vars

----------------------------------------------------------------------------
(* The library's functions called on their own, on every small argument.   *)

\* the well-formed ranges with bounds up to MaxVal, the empty ones included
Ranges ==
    {Range(p[1], p[2]) :
        p \in {q \in (0..MaxVal) \X (0..MaxVal) : q[1] <= q[2]}}

\* the rules whose source is one of Ranges
Rules ==
    {RangeMapFromStr(d, r.start, r.end - r.start) : d \in 0..MaxVal, r \in Ranges}

Stages == UNION {[1..n -> Rules] : n \in 0..MaxStageRules}

Calls ==
    {[fn |-> "overlaps", self |-> a, other |-> b] : a \in Ranges, b \in Ranges}
    \cup {[fn |-> "lookup", self |-> m, value |-> v] :
             m \in Rules, v \in 0..(MaxVal + 1)}
    \cup {[fn |-> "map_onto", self |-> m, input |-> i] :
             m \in Rules, i \in Ranges}
    \cup {[fn |-> "from_str", dest_start |-> d, source_start |-> s,
            length |-> l, build |-> b] :
             d \in 0..U64Max, s \in 0..U64Max, l \in 0..U64Max, b \in Builds}

InitCall ==
    /\ pc = "call"
    /\ call \in Calls
    /\ ret = None
    /\ almanac = None
    /\ almanac2 = None
    /\ trace = <<>>
    /\ result = NoOutcome

CallOverlaps ==
    /\ pc = "call"
    /\ call.fn = "overlaps"
    /\ ret' = overlaps(call.self, call.other)
    /\ result' = Completed
    /\ pc' = "ret"
    /\ UNCHANGED <<almanac, almanac2, trace, call>>

CallLookup ==
    /\ pc = "call"
    /\ call.fn = "lookup"
    /\ ret' = lookup(call.self, call.value)
    /\ result' = Completed
    /\ pc' = "ret"
    /\ UNCHANGED <<almanac, almanac2, trace, call>>

CallMapOnto ==
    /\ pc = "call"
    /\ call.fn = "map_onto"
    /\ IF map_onto_panics(call.self, call.input)
       THEN ret' = None /\ result' = Panicked
       ELSE ret' = map_onto(call.self, call.input) /\ result' = Completed
    /\ pc' = "ret"
    /\ UNCHANGED <<almanac, almanac2, trace, call>>

CallFromStr ==
    /\ pc = "call"
    /\ call.fn = "from_str"
    /\ ret' = RangeMap_from_str(call.dest_start, call.source_start,
                                call.length, call.build)
    /\ result' = IF ret' = Panic THEN Panicked ELSE Completed
    /\ pc' = "ret"
    /\ UNCHANGED <<almanac, almanac2, trace, call>>

NextCall == CallOverlaps \/ CallLookup \/ CallMapOnto \/ CallFromStr

SpecCall == InitCall /\ [][NextCall]_vars

----------------------------------------------------------------------------
(* The per-stage step of the range resolver on its own: one stage of up to *)
(* MaxStageRules rules and one input range.                                *)

StageCalls ==
    {[fn |-> "stage_ranges", stage |-> st, range |-> i] :
        st \in Stages, i \in Ranges}

InitStage ==
    /\ pc = "call"
    /\ call \in StageCalls
    /\ ret = None
    /\ almanac = None
    /\ almanac2 = None
    /\ trace = <<>>
    /\ result = NoOutcome

CallStageRanges ==
    /\ pc = "call"
    /\ call.fn = "stage_ranges"
    /\ IF stage_ranges_panics(call.stage, call.range)
       THEN ret' = None /\ result' = Panicked
       ELSE ret' = stage_ranges(call.stage, call.range) /\ result' = Completed
    /\ pc' = "ret"
    /\ UNCHANGED <<almanac, almanac2, trace, call>>

NextStage == CallStageRanges

SpecStage == InitStage /\ [][NextStage]_vars

----------------------------------------------------------------------------
(* merge_overlap on its own, and behind the sort as map_onto and the      *)
(* per-stage step call it.                                                 *)

\* the vectors of up to MaxVecLen ranges
Vectors == UNION {[1..n -> Ranges] : n \in 0..MaxVecLen}

VecCalls ==
    {[fn |-> "merge_overlap", v |-> v] : v \in Vectors}
    \cup {[fn |-> "sort_merge", v |-> v] :
             v \in Vectors \cup {w \o w : w \in Vectors}}

InitVec ==
    /\ pc = "call"
    /\ call \in VecCalls
    /\ ret = None
    /\ almanac = None
    /\ almanac2 = None
    /\ trace = <<>>
    /\ result = NoOutcome

CallMergeOverlap ==
    /\ pc = "call"
    /\ call.fn = "merge_overlap"
    /\ ret' = merge_overlap(call.v)
    /\ result' = Completed
    /\ pc' = "ret"
    /\ UNCHANGED <<almanac, almanac2, trace, call>>

\* results.sort_by(|a, b| a.start.cmp(&b.start)); results.merge_overlap()
CallSortMerge ==
    /\ pc = "call"
    /\ call.fn = "sort_merge"
    /\ ret' = merge_overlap(sort_by_start(call.v))
    /\ result' = Completed
    /\ pc' = "ret"
    /\ UNCHANGED <<almanac, almanac2, trace, call>>

NextVec == CallMergeOverlap \/ CallSortMerge

SpecVec == InitVec /\ [][NextVec]_vars

----------------------------------------------------------------------------
(* src/2023/day4/src/lib.rs: Scratchcard and Game. A HashMap<u32, u32> is  *)
(* a function whose domain is the set of its keys.                         *)

\* Scratchcard::matches: the numbers of the card that `winning` contains
matches(card) ==
    Cardinality({k \in 1..Len(card.numbers) :
                    \E j \in 1..Len(card.winning) :
                        card.winning[j] = card.numbers[k]})

\* copies.entry(key).or_insert(value): the map with the key present
or_insert(copies, key, value) ==
    IF key \in DOMAIN copies THEN copies ELSE copies @@ (key :> value)

\* for i in 1..=n { *copies.entry(id + i).or_insert(1) += duplicates; }
RECURSIVE add_duplicates(_, _, _, _)
add_duplicates(copies, id, duplicates, n) ==
    IF n = 0 THEN copies
    ELSE LET before == add_duplicates(copies, id, duplicates, n - 1)
         IN  [or_insert(before, id + n, 1) EXCEPT ![id + n] = @ + duplicates]

\* the closure handed to for_each in Game::total_scratchcards
for_each_card(copies, card) ==
    LET entered    == or_insert(copies, card.id, 1)
        duplicates == entered[card.id]
    IN  add_duplicates(entered, card.id, duplicates, matches(card))

\* the map `copies` before the first card and after each card
RECURSIVE copies_trace(_, _)
copies_trace(cards, k) ==
    IF k = 0 THEN <<<<>>>>
    ELSE LET before == copies_trace(cards, k - 1)
         IN  Append(before, for_each_card(before[k], cards[k]))

\* copies.values().sum()
RECURSIVE values_sum(_)
values_sum(copies) ==
    IF DOMAIN copies = {} THEN 0
    ELSE LET key == CHOOSE k \in DOMAIN copies : TRUE
         IN  copies[key]
                 + values_sum([k \in DOMAIN copies \ {key} |-> copies[k]])

\* the cards of the games: one winning number, one number that does not
\* match and up to MaxMatches numbers that do
Scratchcards ==
    {[id |-> i, winning |-> <<1>>, numbers |-> <<2>> \o [k \in 1..m |-> 1]] :
        i \in 1..MaxCardId, m \in 0..MaxMatches}

Games == {[cards |-> c] : c \in UNION {[1..n -> Scratchcards] : n \in 0..MaxCards}}

InitGame ==
    /\ pc = "call"
    /\ call \in {[fn |-> "total_scratchcards", self |-> g] : g \in Games}
    /\ ret = None
    /\ almanac = None
    /\ almanac2 = None
    /\ trace = <<>>
    /\ result = NoOutcome

\* Game::total_scratchcards; trace keeps `copies` before and after each card
CallTotalScratchcards ==
    /\ pc = "call"
    /\ call.fn = "total_scratchcards"
    /\ trace' = copies_trace(call.self.cards, Len(call.self.cards))
    /\ ret' = values_sum(trace'[Len(trace')])
    /\ result' = Completed
    /\ pc' = "ret"
    /\ UNCHANGED <<almanac, almanac2, call>>

NextGame == CallTotalScratchcards

SpecGame == InitGame /\ [][NextGame]_vars

----------------------------------------------------------------------------
(* src/2023/day7/src/bin/part1.rs: Card, Hand, HandType, Play and score.   *)
(* An Ordering is one of "Less", "Equal", "Greater".                       *)

\* enum Card, in the order of its declaration, which derive(Ord) follows
CardOrder ==
    <<"Two", "Three", "Four", "Five", "Six", "Seven", "Eight", "Nine", "Ten",
      "Jack", "Queen", "King", "Ace">>

\* enum HandType, in the order of its declaration
HandTypeOrder ==
    <<"HighCard", "OnePair", "TwoPair", "ThreeOfAKind", "FullHouse",
      "FourOfAKind", "FiveOfAKind">>

\* the position of a variant in the declaration of its enum
Discriminant(order, x) == CHOOSE i \in 1..Len(order) : order[i] = x

\* Ord::cmp of two numbers
cmp(a, b) == IF a < b THEN "Less" ELSE IF a > b THEN "Greater" ELSE "Equal"

\* the derived Ord of Card and of HandType
Card_cmp(a, b) == cmp(Discriminant(CardOrder, a), Discriminant(CardOrder, b))

HandType_cmp(a, b) ==
    cmp(Discriminant(HandTypeOrder, a), Discriminant(HandTypeOrder, b))

\* Ord for Vec<Card>: the first position that differs decides, then the length
RECURSIVE Vec_cmp(_, _)
Vec_cmp(a, b) ==
    IF a = <<>> \/ b = <<>> THEN cmp(Len(a), Len(b))
    ELSE IF Card_cmp(a[1], b[1]) # "Equal" THEN Card_cmp(a[1], b[1])
    ELSE Vec_cmp(Tail(a), Tail(b))

\* the HashMap `counts` of HandType::from: how often each card is in the hand
card_counts(hand) ==
    [c \in {hand.cards[k] : k \in 1..Len(hand.cards)} |->
        Cardinality({k \in 1..Len(hand.cards) : hand.cards[k] = c})]

\* the counts of the vector `counts` behind sort_by_key and reverse: the
\* largest first (the order of cards with the same count is that of the
\* HashMap's iteration, and no pattern of the match reads a card)
RECURSIVE counts_descending(_)
counts_descending(counts) ==
    IF DOMAIN counts = {} THEN <<>>
    ELSE LET top == CHOOSE c \in DOMAIN counts :
                        \A d \in DOMAIN counts : counts[d] <= counts[c]
         IN  <<counts[top]>>
                 \o counts_descending([d \in DOMAIN counts \ {top} |-> counts[d]])

\* From<&Hand> for HandType: the match on the slice of counts
HandTypeFrom(value) ==
    LET sl == counts_descending(card_counts(value))
        n  == Len(sl)
    IN  IF n = 1 /\ sl[1] = 5 THEN "FiveOfAKind"
        ELSE IF n = 2 /\ sl[1] = 4 THEN "FourOfAKind"
        ELSE IF n = 2 /\ sl[1] = 3 /\ sl[2] = 2 THEN "FullHouse"
        ELSE IF n >= 1 /\ sl[1] = 3 THEN "ThreeOfAKind"
        ELSE IF n = 3 /\ sl[1] = 2 /\ sl[2] = 2 THEN "TwoPair"
        ELSE IF n >= 1 /\ sl[1] = 2 THEN "OnePair"
        ELSE "HighCard"

\* a comparison of hands that never looks at the types
Hand_cmp_cards_only(self, other) == Vec_cmp(self.cards, other.cards)

\* Ord for Hand
Hand_cmp(self, other) ==
    LET self_type  == HandTypeFrom(self)
        other_type == HandTypeFrom(other)
    IN  IF self_type = other_type
        THEN Vec_cmp(self.cards, other.cards)
        ELSE HandType_cmp(self_type, other_type)

\* the play goes behind every play whose hand is not greater: sort_by is stable
InsertByHand(s, x) ==
    LET p == Cardinality({i \in 1..Len(s) : Hand_cmp(s[i].hand, x.hand) # "Greater"})
    IN  SubSeq(s, 1, p) \o <<x>> \o SubSeq(s, p + 1, Len(s))

\* plays.sort_by(|a, b| a.hand.cmp(&b.hand))
RECURSIVE sort_by_hand(_)
sort_by_hand(plays) ==
    IF plays = <<>> THEN <<>>
    ELSE InsertByHand(sort_by_hand(SubSeq(plays, 1, Len(plays) - 1)),
                      plays[Len(plays)])

\* score: enumerate() counts from 0, the sequence from 1
score(plays) ==
    LET sorted == sort_by_hand(plays)
    IN  [k \in 1..Len(sorted) |-> ((k - 1) + 1) * sorted[k].bid]

\* the hands of the plays: one or more of every type, two pairs of hands
\* made of the same cards in another order
Hands ==
    {[cards |-> c] : c \in
        {<<"Two", "Ace", "King", "Ten", "Nine">>,
         <<"Two", "Two", "Ace", "King", "Ten">>,
         <<"Two", "Two", "Ace", "Ace", "King">>,
         <<"Two", "Two", "Two", "Ace", "King">>,
         <<"Two", "Two", "Two", "King", "Ace">>,
         <<"Two", "Two", "Two", "Ace", "Ace">>,
         <<"Two", "Two", "Two", "Two", "Ace">>,
         <<"Two", "Two", "Two", "Ace", "Two">>,
         <<"Two", "Two", "Two", "Two", "Two">>}}

Plays == {[hand |-> h, bid |-> b] : h \in Hands, b \in 1..MaxBid}

InitScore ==
    /\ pc = "call"
    /\ call \in {[fn |-> "score", plays |-> v] :
                    v \in UNION {[1..n -> Plays] : n \in 0..MaxPlays}}
    /\ ret = None
    /\ almanac = None
    /\ almanac2 = None
    /\ trace = <<>>
    /\ result = NoOutcome

CallScore ==
    /\ pc = "call"
    /\ call.fn = "score"
    /\ ret' = score(call.plays)
    /\ result' = Completed
    /\ pc' = "ret"
    /\ UNCHANGED <<almanac, almanac2, trace, call>>

NextScore == CallScore

SpecScore == InitScore /\ [][NextScore]_vars

----------------------------------------------------------------------------
(* part1.rs: == and cmp of two hands, one after the other. ret holds what  *)
(* eq returned, trace what cmp returned.                                   *)

\* the card goes behind every card that is not greater
InsertByCard(s, x) ==
    LET p == Cardinality({i \in 1..Len(s) : Card_cmp(s[i], x) # "Greater"})
    IN  SubSeq(s, 1, p) \o <<x>> \o SubSeq(s, p + 1, Len(s))

\* Vec<Card>::sort
RECURSIVE sort_cards(_)
sort_cards(cards) ==
    IF cards = <<>> THEN <<>>
    ELSE InsertByCard(sort_cards(SubSeq(cards, 1, Len(cards) - 1)),
                      cards[Len(cards)])

\* PartialEq for Hand: the sorted clones are compared
Hand_eq(self, other) ==
    LET s == sort_cards(self.cards)
        o == sort_cards(other.cards)
    IN  s = o

\* the hands of hand_tests
TestHands ==
    {[cards |-> c] : c \in
        {<<"Ace", "Ace", "Ace", "Ace", "Ten">>,
         <<"Ace", "Ace", "Ace", "Ace", "Nine">>,
         <<"Ace", "Ace", "Ten", "Ace", "Ace">>}}

InitHand ==
    /\ pc = "call"
    /\ call \in {[fn |-> "Hand", self |-> a, other |-> b] :
                    a \in Hands \cup TestHands, b \in Hands \cup TestHands}
    /\ ret = None
    /\ almanac = None
    /\ almanac2 = None
    /\ trace = <<>>
    /\ result = NoOutcome

\* self == other
CallHandEq ==
    /\ pc = "call"
    /\ call.fn = "Hand"
    /\ ret' = Some(Hand_eq(call.self, call.other))
    /\ pc' = "eq"
    /\ UNCHANGED <<almanac, almanac2, trace, result, call>>

\* self.cmp(&other)
CallHandCmp ==
    /\ pc = "eq"
    /\ trace' = Some(Hand_cmp(call.self, call.other))
    /\ result' = Completed
    /\ pc' = "cmp"
    /\ UNCHANGED <<almanac, almanac2, ret, call>>

NextHand == CallHandEq \/ CallHandCmp

SpecHand == InitHand /\ [][NextHand]_vars

----------------------------------------------------------------------------
(* lib.rs: ParseState and Almanac::from_str, line by line. A line, trimmed, *)
(* is blank, a "seeds:" line (the word and its numbers), the header of a   *)
(* category ("seed-to-soil map:") or a rule line of three numbers; every   *)
(* number has one digit, so a rule line is five bytes long.                *)
(* trace holds the locals of from_str before the last line taken and after *)
(* it; call.line is that line; almanac is the local of that name.          *)

\* the variants of ParseState in the order of their declaration
ParseStateOrder ==
    <<"Seeds", "SeedToSoilMap", "SoilToFertilizerMap", "FertilizerToWaterMap",
      "WaterToLightMap", "LightToTemperatureMap", "TemperatureToHumidityMap",
      "HumidityToLocationMap", "Done">>

\* next_category with Done followed by Seeds
next_category_wraps(self) ==
    IF self = "Done" THEN "Seeds"
    ELSE ParseStateOrder[1 + CHOOSE i \in 1..8 : ParseStateOrder[i] = self]

\* ParseState::next_category
next_category(self) ==
    CASE self = "Seeds"                    -> "SeedToSoilMap"
      [] self = "SeedToSoilMap"            -> "SoilToFertilizerMap"
      [] self = "SoilToFertilizerMap"      -> "FertilizerToWaterMap"
      [] self = "FertilizerToWaterMap"     -> "WaterToLightMap"
      [] self = "WaterToLightMap"          -> "LightToTemperatureMap"
      [] self = "LightToTemperatureMap"    -> "TemperatureToHumidityMap"
      [] self = "TemperatureToHumidityMap" -> "HumidityToLocationMap"
      [] self = "HumidityToLocationMap"    -> "Done"
      [] self = "Done"                     -> "Done"

\* Almanac::default()
Almanac_default == ParsedAlmanac(<<>>, <<>>)

BlankText == [kind |-> "blank", numbers |-> <<>>]

HeaderText == [kind |-> "header", numbers |-> <<>>]

\* the lines of a text
TextLines ==
    {BlankText, HeaderText}
    \cup {[kind |-> "seeds", numbers |-> v] :
             v \in UNION {[1..n -> 0..MaxLineVal] : n \in 0..MaxLineSeeds}}
    \cup {[kind |-> "rule", numbers |-> v] : v \in [1..3 -> 0..MaxLineVal]}

\* line.is_empty()
is_empty(line) == line.kind = "blank"

Err == [kind |-> "err"]

\* line[6..].split_whitespace().map(str::parse).map(Result::unwrap).collect():
\* the numbers behind "seeds:"; the slice is out of bounds on a rule line of
\* five bytes and unwrap panics on the words of a header
seeds_of_line(line) ==
    IF line.kind = "seeds" THEN Ok(line.numbers) ELSE Panic

\* line.parse::<RangeMap>(): the first token of a "seeds:" line or of a header
\* is no u64 and `?` hands the error on
parse_RangeMap(line) ==
    IF line.kind = "rule"
    THEN Ok(RangeMapFromStr(line.numbers[1], line.numbers[2], line.numbers[3]))
    ELSE Err

\* the field of Almanac that the arm of `match state` pushes to
FieldOf(state) ==
    CASE state = "SeedToSoilMap"            -> "seed_to_soil_map"
      [] state = "SoilToFertilizerMap"      -> "soil_to_fertilizer_map"
      [] state = "FertilizerToWaterMap"     -> "fertilizer_to_water_map"
      [] state = "WaterToLightMap"          -> "water_to_light_map"
      [] state = "LightToTemperatureMap"    -> "light_to_temperature_map"
      [] state = "TemperatureToHumidityMap" -> "temperature_to_humidity_map"
      [] state = "HumidityToLocationMap"    -> "humidity_to_location_map"

MapStates == {ParseStateOrder[i] : i \in 2..8}

\* the locals of from_str
Locals(state, a, skip) == [state |-> state, almanac |-> a, skip |-> skip]

\* the locals as they are now
Now == trace[Len(trace)]

\* the rules pushed so far
RulesPushed(a) == Len(Flatten(maps(a)))

Failed == [kind |-> "error", value |-> 0]

InitParse ==
    /\ pc = "lines"
    /\ almanac = Almanac_default
    /\ trace = <<Locals("Seeds", Almanac_default, FALSE)>>
    /\ call = [fn |-> "Almanac::from_str", line |-> BlankText]
    /\ almanac2 = None
    /\ result = NoOutcome
    /\ ret = None

\* the loop goes on with the locals `after`
Continue(line, after) ==
    /\ trace' = <<Now, after>>
    /\ almanac' = after.almanac
    /\ call' = [call EXCEPT !.line = line]
    /\ UNCHANGED <<pc, almanac2, result, ret>>

\* from_str ends at this line with `outcome`, handing back `value`
Return(line, outcome, value) ==
    /\ trace' = <<Now, Now>>
    /\ call' = [call EXCEPT !.line = line]
    /\ pc' = "returned"
    /\ result' = outcome
    /\ ret' = value
    /\ UNCHANGED <<almanac, almanac2>>

\* if skip { skip = false; continue; }
SkipLine ==
    /\ pc = "lines"
    /\ Now.skip
    /\ \E line \in TextLines :
          Continue(line, [Now EXCEPT !.skip = FALSE])

\* if line.is_empty() { state.next_category(); skip = true; continue; }
EmptyLine ==
    /\ pc = "lines"
    /\ ~Now.skip
    /\ \E line \in TextLines :
          /\ is_empty(line)
          /\ Continue(line, [Now EXCEPT !.state = next_category(@),
                                        !.skip = TRUE])

\* ParseState::Seeds => almanac.seeds = ...
SeedsLine ==
    /\ pc = "lines"
    /\ ~Now.skip
    /\ Now.state = "Seeds"
    /\ \E line \in TextLines :
          /\ ~is_empty(line)
          /\ LET seeds == seeds_of_line(line)
             IN  IF seeds.kind = "panic"
                 THEN Return(line, Panicked, None)
                 ELSE Continue(line, [Now EXCEPT !.almanac.seeds = seeds.value])

\* the seven arms almanac.<map>.push(line.parse()?)
RuleLine ==
    /\ pc = "lines"
    /\ ~Now.skip
    /\ Now.state \in MapStates
    /\ RulesPushed(almanac) < MaxParsedRules
    /\ \E line \in TextLines :
          /\ ~is_empty(line)
          /\ LET rule == parse_RangeMap(line)
             IN  IF rule.kind = "err"
                 THEN Return(line, Failed, None)
                 ELSE Continue(line,
                          [Now EXCEPT !.almanac[FieldOf(Now.state)] =
                                          Append(@, rule.value)])

\* ParseState::Done => return Ok(almanac)
DoneLine ==
    /\ pc = "lines"
    /\ ~Now.skip
    /\ Now.state = "Done"
    /\ \E line \in TextLines :
          /\ ~is_empty(line)
          /\ Return(line, Completed, Some(almanac))

\* the text has no further line: Ok(almanac)
EndOfText ==
    /\ pc = "lines"
    /\ pc' = "end"
    /\ result' = Completed
    /\ ret' = Some(almanac)
    /\ UNCHANGED <<almanac, almanac2, trace, call>>

NextParse ==
    SkipLine \/ EmptyLine \/ SeedsLine \/ RuleLine \/ DoneLine \/ EndOfText

SpecParse == InitParse /\ [][NextParse]_vars

----------------------------------------------------------------------------
(* Claims about the functions called on their own (SpecCall, SpecStage).   *)

\* the integers of a half-open range
Points(r) == r.start..(r.end - 1)

\* the integers covered by the ranges of a vector
Covered(v) == UNION {Points(v[i]) : i \in 1..Len(v)}

\* no integer lies in the sources of two rules of the stage
DisjointSources(stage) ==
    \A i, j \in 1..Len(stage) :
        i # j => Points(stage[i].src) \cap Points(stage[j].src) = {}

\* v shifted by the offset of the rule whose source holds it, else v itself
PointImage(stage, v) ==
    IF \E i \in 1..Len(stage) : v \in Points(stage[i].src)
    THEN LET i == CHOOSE i \in 1..Len(stage) : v \in Points(stage[i].src)
         IN  v + (stage[i].dest.start - stage[i].src.start)
    ELSE v

\* C1: for a stage with pairwise disjoint sources, the integers covered by
\* what the per-stage step returns for a range are exactly the point images
\* of the integers of that range.
C1_PointRangeEquivalence ==
    (pc = "ret" /\ call.fn = "stage_ranges" /\ DisjointSources(call.stage))
        => Covered(ret) = {PointImage(call.stage, v) : v \in Points(call.range)}

\* C7: overlaps(a, b) is true exactly when a.start < b.end and
\* b.start < a.end, so ranges that only touch do not overlap.
C7_OverlapsIsStrict ==
    (pc = "ret" /\ call.fn = "overlaps")
        => (ret <=> (call.self.start < call.other.end
                        /\ call.other.start < call.self.end))

\* C8: lookup(v) is Some(dest.start + (v - src.start)) exactly when
\* src.start <= v < src.end, and None for every other v.
C8_Lookup ==
    (pc = "ret" /\ call.fn = "lookup")
        => LET m == call.self
               v == call.value
           IN  IF m.src.start <= v /\ v < m.src.end
               THEN ret = Some(m.dest.start + (v - m.src.start))
               ELSE ret = None

\* lookup was asked for the end of a non-empty source and for a value inside
C8_Witness ==
    /\ pc = "ret"
    /\ call.fn = "lookup"
    /\ call.self.src.start < call.self.src.end
    /\ call.value = call.self.src.end
    /\ ret = None

\* C9: an input range that lies within the source of the rule is mapped to
\* the one range (I.start + offset)..(I.end + offset), nothing else.
C9_FullContainment ==
    (/\ pc = "ret"
     /\ call.fn = "map_onto"
     /\ call.self.src.start <= call.input.start
     /\ call.input.end <= call.self.src.end)
        => LET offset == call.self.dest.start - call.self.src.start
           IN  ret = Some(<<Range(call.input.start + offset,
                                  call.input.end + offset)>>)

\* the source sticks out on both sides of a non-empty input, the offset is not 0
C9_Witness ==
    /\ pc = "ret"
    /\ call.fn = "map_onto"
    /\ call.self.src.start < call.input.start
    /\ call.input.start < call.input.end
    /\ call.input.end < call.self.src.end
    /\ call.self.dest.start # call.self.src.start
    /\ Len(ret[1]) = 1
    /\ ret[1][1].end - ret[1][1].start = call.input.end - call.input.start

\* two fragments overlap or touch
Joined(a, b) == a.start <= b.end /\ b.start <= a.end

\* the fragments that a chain of joined fragments links to fragment i
Linked(frags, i) ==
    LET n    == Len(frags)
        step == {<<j, k>> \in (1..n) \X (1..n) : Joined(frags[j], frags[k])}
        two  == step \cup {<<j, k>> \in (1..n) \X (1..n) :
                              \E m \in 1..n : <<j, m>> \in step /\ <<m, k>> \in step}
        all  == two \cup {<<j, k>> \in (1..n) \X (1..n) :
                              \E m \in 1..n : <<j, m>> \in two /\ <<m, k>> \in two}
    IN  {k \in 1..n : <<i, k>> \in all}

\* the range from the least start to the greatest end of the fragments in c
Hull(frags, c) ==
    Range(CHOOSE x \in {frags[k].start : k \in c} :
              \A k \in c : x <= frags[k].start,
          CHOOSE y \in {frags[k].end : k \in c} :
              \A k \in c : y >= frags[k].end)

\* v is the normalization of the fragments: sorted by start, one range for
\* every group of overlapping or touching fragments
IsNormalizationOf(v, frags) ==
    /\ \A i \in 1..(Len(v) - 1) : v[i].end < v[i + 1].start
    /\ {v[i] : i \in 1..Len(v)}
           = {Hull(frags, Linked(frags, i)) : i \in 1..Len(frags)}

\* the three fragments of the claim
ThreeFragments(m, i) ==
    <<Range(i.start, m.src.start), Range(m.dest.start, m.dest.end),
      Range(m.src.end, i.end)>>

----------------------------------------------------------------------------
(* Claims about the resolvers (Spec).                                      *)

\* the least number of a non-empty set
Least(S) == CHOOSE m \in S : \A x \in S : m <= x

\* the ranges the fold holds after stage k: the outputs of all input ranges
Held(k) == Flatten(trace[k])

\* C2: for a non-empty set of seed ranges the range resolver returns the
\* least start among the ranges it holds after the last stage.
C2_LowestIsLeastStart ==
    (pc = "lowest2" /\ almanac2.seeds # <<>>)
        => result = Returned(Least({Held(NumStages)[i].start :
                                       i \in 1..Len(Held(NumStages))}))

\* a lies wholly before b or wholly behind it, and they do not touch
Apart(a, b) == a.end < b.start \/ b.end < a.start

\* any two different ranges of the vector are apart
PairwiseApart(v) ==
    \A i, j \in 1..Len(v) : v[i] # v[j] => Apart(v[i], v[j])

\* the seed ranges are non-empty and pairwise apart
NormalizedSeeds(a) ==
    /\ \A i \in 1..Len(a.seeds) : a.seeds[i].start < a.seeds[i].end
    /\ \A i, j \in 1..Len(a.seeds) : i # j => Apart(a.seeds[i], a.seeds[j])

AskedWithNoSeeds ==
    \/ pc = "lowest" /\ almanac.seeds = <<>>
    \/ pc = "lowest2" /\ almanac2.seeds = <<>>

C5_SinglePointEquivalence ==
    (/\ pc = "lowest2"
     /\ Len(almanac2.seeds) = 1
     /\ almanac2.seeds[1].end = almanac2.seeds[1].start + 1
     /\ \A k \in 1..NumStages : DisjointSources(maps(almanac2)[k]))
        => result = Almanac_lowest_location_that_needs_a_seed(
                        [almanac EXCEPT !.seeds = <<almanac2.seeds[1].start>>])

\* the values a stage can give to v: shifted by a rule whose source holds v,
\* v itself when no source holds it
StageImages(stage, v) ==
    {stage[i].dest.start + (v - stage[i].src.start) :
        i \in {j \in 1..Len(stage) : stage[j].src.start <= v /\ v < stage[j].src.end}}
    \cup (IF \E j \in 1..Len(stage) : stage[j].src.start <= v /\ v < stage[j].src.end
          THEN {} ELSE {v})

\* the values a set of values can have behind a stage
ThroughStage(stage, S) == UNION {StageImages(stage, v) : v \in S}

\* the locations of a seed: the seven stages in their fixed order
Locations(a, seed) ==
    ThroughStage(a.humidity_to_location_map,
    ThroughStage(a.temperature_to_humidity_map,
    ThroughStage(a.light_to_temperature_map,
    ThroughStage(a.water_to_light_map,
    ThroughStage(a.fertilizer_to_water_map,
    ThroughStage(a.soil_to_fertilizer_map,
    ThroughStage(a.seed_to_soil_map, {seed})))))))

\* C6: the point resolver returns the least of the locations of the seeds,
\* a location being the seed passed through the seven stages in the order
\* seed-to-soil, ..., humidity-to-location.
C6_LowestIsLeastLocation ==
    (pc = "lowest" /\ almanac.seeds # <<>>)
        => /\ result.kind = "value"
           /\ \E i \in 1..Len(almanac.seeds) :
                 result.value \in Locations(almanac, almanac.seeds[i])
           /\ \A i \in 1..Len(almanac.seeds) :
                 \E w \in Locations(almanac, almanac.seeds[i]) : result.value <= w

\* two seeds, the lower location is that of the second; the first seed is
\* moved by a rule of one stage and moved again by a rule of a later stage
C6_Witness ==
    /\ pc = "lowest"
    /\ Len(almanac.seeds) = 2
    /\ \E k1 \in 1..NumStages, k2 \in 1..NumStages :
          /\ k1 < k2
          /\ Len(maps(almanac)[k1]) = 1
          /\ Len(maps(almanac)[k2]) = 1
          /\ StageImages(maps(almanac)[k1], almanac.seeds[1]) # {almanac.seeds[1]}
          /\ \A v \in StageImages(maps(almanac)[k1], almanac.seeds[1]) :
                StageImages(maps(almanac)[k2], v) # {v}
    /\ result = Returned(almanac.seeds[2])
    /\ almanac.seeds[2] < almanac.seeds[1]

----------------------------------------------------------------------------
(* Further claims about map_onto and the per-stage step (SpecCall,         *)
(* SpecStage).                                                             *)

\* no range of the vector is empty
NoEmptyRange(v) == \A i \in 1..Len(v) : v[i].start < v[i].end

\* C11: for a non-empty input range and a rule with a non-empty source,
\* every range of the vector map_onto returns satisfies start < end: a
\* fragment that is empty because of boundary equality is dropped.
C11_NoEmptyInterval ==
    (/\ pc = "ret"
     /\ call.fn = "map_onto"
     /\ call.input.start < call.input.end
     /\ call.self.src.start < call.self.src.end
     /\ ret # None)
        => NoEmptyRange(ret[1])

\* the two ranges have an integer in common
Intersect(a, b) == Points(a) \cap Points(b) # {}

\* every rule of the stage has a non-empty source
NonEmptySources(stage) ==
    \A i \in 1..Len(stage) : stage[i].src.start < stage[i].src.end

\* C12: a stage none of whose rule sources has an integer in common with
\* the input range (a stage with no rule is such a stage) maps the range to
\* itself: the per-stage step returns the one range it was given. Stated for
\* a non-empty input range and rules with non-empty sources.
C12_IdentityStage ==
    (/\ pc = "ret"
     /\ call.fn = "stage_ranges"
     /\ call.range.start < call.range.end
     /\ NonEmptySources(call.stage)
     /\ \A i \in 1..Len(call.stage) : ~Intersect(call.stage[i].src, call.range))
        => ret = <<call.range>>

\* C13: RangeMap::from_str on a triple with length 0, or one for which
\* dest_start + length overflows, returns an error: it neither returns a
\* rule nor panics.
C13_MalformedRuleRejected ==
    (/\ pc = "ret"
     /\ call.fn = "from_str"
     /\ (call.length = 0 \/ call.dest_start + call.length > U64Max))
        => ret.kind = "err"

\* some integer lies in the sources of two rules of the stage
OverlappingSources(stage) == ~DisjointSources(stage)

\* C14: for a well-formed input range and rules with src and dest of equal
\* length, every application of a stage, with the calls of overlaps, merge
\* and map_onto it makes, completes without a panic, also when the sources
\* of the rules overlap each other and when dest.start < src.start.
C14_Totality ==
    (pc = "ret" /\ call.fn = "stage_ranges") => result = Completed

\* two rules whose sources overlap each other; the first starts before the
\* input, ends inside it and has dest.start < src.start, the second takes
\* another branch of map_onto
C14_Witness ==
    /\ pc = "ret"
    /\ call.fn = "stage_ranges"
    /\ Len(call.stage) = 2
    /\ OverlappingSources(call.stage)
    /\ map_onto_case(call.stage[1], call.range) = "self starts before input"
    /\ map_onto_case(call.stage[2], call.range) # "self starts before input"
    /\ call.stage[1].dest.start < call.stage[1].src.start
    /\ call.stage[1].src.end > call.range.start
    /\ result = Completed
    /\ Len(ret) >= 2

\* the vector is sorted by start
SortedByStart(v) == \A i \in 1..(Len(v) - 1) : v[i].start <= v[i + 1].start

\* C18: for a non-empty input range I and a rule R with a non-empty source,
\* map_onto returns None when the source of R and I have no integer in
\* common; otherwise it returns Some(F) with F sorted by start and covering
\* exactly the image of I under R alone.
C18_SingleRuleImage ==
    (/\ pc = "ret"
     /\ call.fn = "map_onto"
     /\ call.input.start < call.input.end
     /\ call.self.src.start < call.self.src.end)
        => IF ~Intersect(call.self.src, call.input)
           THEN ret = None
           ELSE /\ ret # None
                /\ SortedByStart(ret[1])
                /\ Covered(ret[1])
                       = {PointImage(<<call.self>>, v) : v \in Points(call.input)}

\* the integers of the range that lie in the source of some rule of the stage
InSomeSource(stage, range) ==
    {v \in Points(range) : \E i \in 1..Len(stage) : v \in Points(stage[i].src)}

\* the point images of the integers of the range
ImageOf(stage, range) == {PointImage(stage, v) : v \in Points(range)}

\* C19: when two or more rules of a stage with pairwise disjoint sources
\* have integers in common with the input range I, an integer of I that
\* lies in the source of some rule is covered by the stage's output only
\* where it is the shifted image of an integer of I: it never passes
\* through unshifted.
C19_RemainderOfAllRules ==
    (/\ pc = "ret"
     /\ call.fn = "stage_ranges"
     /\ Len(call.stage) >= 2
     /\ DisjointSources(call.stage)
     /\ \A i \in 1..Len(call.stage) : Intersect(call.stage[i].src, call.range))
        => InSomeSource(call.stage, call.range) \cap Covered(ret)
               \subseteq ImageOf(call.stage, call.range)

\* C20: every integer of the input range that lies in the source of no rule
\* of the stage is covered by the stage's output for that range.
C20_RemainderPassesThrough ==
    (pc = "ret" /\ call.fn = "stage_ranges")
        => Points(call.range) \ InSomeSource(call.stage, call.range)
               \subseteq Covered(ret)

\* a rule overlaps the input on one side only, a second rule lies inside
\* it; integers before, between and behind the sources are in the output
C20_Witness ==
    /\ pc = "ret"
    /\ call.fn = "stage_ranges"
    /\ Len(call.stage) = 2
    /\ DisjointSources(call.stage)
    /\ NonEmptySources(call.stage)
    /\ map_onto_case(call.stage[1], call.range) = "self starts before input"
    /\ Intersect(call.stage[1].src, call.range)
    /\ Intersect(call.stage[2].src, call.range)
    /\ call.stage[1].dest # call.stage[1].src
    /\ call.stage[2].dest # call.stage[2].src
    /\ Points(call.range) \ InSomeSource(call.stage, call.range) # {}
    /\ Points(call.range) \ InSomeSource(call.stage, call.range)
           \subseteq Covered(ret)

----------------------------------------------------------------------------
(* Claims about merge_overlap (SpecVec).                                   *)

\* sorted by start, no empty member, any two members apart
Normalized(v) ==
    /\ NoEmptyRange(v)
    /\ \A i \in 1..(Len(v) - 1) : v[i].end < v[i + 1].start

\* the first half of a vector
FirstHalf(v) == SubSeq(v, 1, Len(v) \div 2)

\* C15: for a normalized vector S, merge_overlap(S) = S, and S \o S sorted
\* by start and handed to merge_overlap gives S again.
C15_IdempotentNormalization ==
    /\ (pc = "ret" /\ call.fn = "merge_overlap" /\ Normalized(call.v))
           => ret = call.v
    /\ (pc = "ret" /\ call.fn = "sort_merge")
           => LET S == FirstHalf(call.v)
              IN  (Normalized(S) /\ call.v = S \o S) => ret = S

\* a normalized vector of two ranges was joined with itself and normalized
C15_Witness ==
    /\ pc = "ret"
    /\ call.fn = "sort_merge"
    /\ Len(call.v) = 4
    /\ Normalized(FirstHalf(call.v))
    /\ call.v = FirstHalf(call.v) \o FirstHalf(call.v)
    /\ ret = FirstHalf(call.v)

----------------------------------------------------------------------------
(* Claims about Game::total_scratchcards (SpecGame).                       *)

\* the sum of f over a finite set
RECURSIVE SumOver(_, _)
SumOver(S, f) ==
    IF S = {} THEN 0
    ELSE LET x == CHOOSE y \in S : TRUE
         IN  f[x] + SumOver(S \ {x}, f)

\* the instances of the card with the id: one until it was given more
Instances(copies, id) == IF id \in DOMAIN copies THEN copies[id] ELSE 1

\* the ids a game can touch
CardIds == 1..(MaxCardId + MaxMatches)

\* the cards of the game carry the ids 1, 2, ... in this order
NumberedInOrder(cards) == \A k \in 1..Len(cards) : cards[k].id = k

\* the card at position k, with c instances and m matches, added c instances
\* to each of the cards id+1 .. id+m and changed no other card
AddedToFollowing(cards, k) ==
    LET id == cards[k].id
        m  == matches(cards[k])
        c  == Instances(trace[k], id)
    IN  \A j \in CardIds :
           Instances(trace[k + 1], j)
               = Instances(trace[k], j) + (IF j \in (id + 1)..(id + m) THEN c ELSE 0)

\* C16: for a game whose cards are numbered 1, 2, ... in input order: taken
\* in that order, a card with id n, m matches and c instances adds c
\* instances to each of the cards n+1 .. n+m, every card starting with one
\* instance; the value returned is the total of the instances of the cards
\* of the game.
C16_TotalOverCardsOfGame ==
    (pc = "ret" /\ call.fn = "total_scratchcards"
                /\ NumberedInOrder(call.self.cards))
        => LET cards == call.self.cards
               final == trace[Len(trace)]
           IN  /\ \A k \in 1..Len(cards) : AddedToFollowing(cards, k)
               /\ ret = SumOver({cards[k].id : k \in 1..Len(cards)},
                                [j \in CardIds |-> Instances(final, j)])

----------------------------------------------------------------------------
(* Claims about score (SpecScore).                                         *)

\* the strength of a hand's type: HighCard 1, ..., FiveOfAKind 7
TypeStrength(hand) ==
    LET type == HandTypeFrom(hand)
    IN  CASE type = "HighCard"     -> 1
          [] type = "OnePair"      -> 2
          [] type = "TwoPair"      -> 3
          [] type = "ThreeOfAKind" -> 4
          [] type = "FullHouse"    -> 5
          [] type = "FourOfAKind"  -> 6
          [] type = "FiveOfAKind"  -> 7

\* the strength of a card: Two 2, ..., Ten 10, Jack 11, Queen 12, King 13, Ace 14
CardStrength(c) ==
    CASE c = "Two" -> 2 [] c = "Three" -> 3 [] c = "Four" -> 4 [] c = "Five" -> 5
      [] c = "Six" -> 6 [] c = "Seven" -> 7 [] c = "Eight" -> 8 [] c = "Nine" -> 9
      [] c = "Ten" -> 10 [] c = "Jack" -> 11 [] c = "Queen" -> 12
      [] c = "King" -> 13 [] c = "Ace" -> 14

\* at the first position where the cards differ, those of a are weaker
WeakerCards(a, b) ==
    \E k \in 1..Min(Len(a.cards), Len(b.cards)) :
        /\ \A j \in 1..(k - 1) : a.cards[j] = b.cards[j]
        /\ CardStrength(a.cards[k]) < CardStrength(b.cards[k])

\* hand a is weaker than hand b: a weaker type, or the same type and a weaker
\* card at the first position where the hands differ
Weaker(a, b) ==
    \/ TypeStrength(a) < TypeStrength(b)
    \/ TypeStrength(a) = TypeStrength(b) /\ WeakerCards(a, b)

\* C17: score returns, for some order of the plays in which no play stands
\* before a play with a weaker hand, the value i * bid of the play at the
\* i-th place of that order (places counted from 1).
C17_ScoreByRank ==
    (pc = "ret" /\ call.fn = "score")
        => LET plays  == call.plays
               n      == Len(plays)
               type   == [i \in 1..n |-> TypeStrength(plays[i].hand)]
               weaker == [i \in 1..n |-> [j \in 1..n |->
                             \/ type[i] < type[j]
                             \/ /\ type[i] = type[j]
                                /\ WeakerCards(plays[i].hand, plays[j].hand)]]
           IN  /\ Len(ret) = n
               /\ \E p \in Permutations(1..n) :
                     /\ \A i \in 1..n : ret[i] = i * plays[p[i]].bid
                     /\ \A i, j \in 1..n : i < j => ~weaker[p[j]][p[i]]

\* three plays given from the strongest to the weakest: the first two of the
\* same type and told apart by a card, the third of a weaker type although
\* its cards are greater position by position; the bids come back reversed
C17_Witness ==
    /\ pc = "ret"
    /\ call.fn = "score"
    /\ Len(call.plays) = 3
    /\ TypeStrength(call.plays[1].hand) = TypeStrength(call.plays[2].hand)
    /\ Weaker(call.plays[2].hand, call.plays[1].hand)
    /\ TypeStrength(call.plays[3].hand) < TypeStrength(call.plays[2].hand)
    /\ Vec_cmp(call.plays[3].hand.cards, call.plays[2].hand.cards) = "Greater"
    /\ call.plays[1].bid # call.plays[3].bid
    /\ ret = <<call.plays[3].bid, 2 * call.plays[2].bid, 3 * call.plays[1].bid>>

----------------------------------------------------------------------------
(* Further claims about the resolvers (Spec).                              *)

\* the starts, other than 0, of the ranges held after the last stage
NonZeroStarts ==
    {Held(NumStages)[i].start : i \in 1..Len(Held(NumStages))} \ {0}

\* C21: the range resolver never returns 0: it returns the least start
\* other than 0 among the ranges held after the last stage, and panics when
\* every such range starts at 0 (or none is held).
C21_NeverReturnsZero ==
    pc = "lowest2"
        => /\ result # Returned(0)
           /\ IF NonZeroStarts = {}
              THEN result = Panicked
              ELSE result = Returned(Least(NonZeroStarts))

\* a range starting at 0 and a range starting elsewhere are held at the end:
\* the other start is returned
C21_Witness ==
    /\ pc = "lowest2"
    /\ \E i \in 1..Len(Held(NumStages)) :
          /\ Held(NumStages)[i].start = 0
          /\ Held(NumStages)[i].end > 0
    /\ NonZeroStarts # {}
    /\ result.kind = "value"
    /\ result.value > 0

\* the seed values at the odd places that have a successor: the starts of the
\* (start, length) pairs, the k-th pair being s[2k - 1], s[2k] counted from 1
PairCount(s) == Cardinality({k \in 1..Len(s) : 2 * k <= Len(s)})

PairInterval(s, k) == Range(s[2 * k - 1], s[2 * k - 1] + s[2 * k])

\* how often the interval r occurs in the vector v
Occurrences(v, r) == Cardinality({i \in 1..Len(v) : v[i] = r})

\* C22: converting an Almanac to an Almanac2 yields exactly the intervals
\* s[2k]..(s[2k] + s[2k+1]) of the consecutive, non-overlapping (start, length)
\* pairs of its seed list, each as often as the pairs give it, ordered by
\* ascending start; the last value of an odd-length list gives no interval,
\* and the seven rule lists are carried over unchanged.
C22_PairsToIntervals ==
    pc = "almanac2"
        => LET s == almanac.seeds
               v == almanac2.seeds
           IN  /\ Len(v) = PairCount(s)
               /\ \A k \in 1..PairCount(s) :
                     Occurrences(v, PairInterval(s, k))
                         = Cardinality({j \in 1..PairCount(s) :
                                           PairInterval(s, j) = PairInterval(s, k)})
               /\ \A i \in 1..(Len(v) - 1) : v[i].start <= v[i + 1].start
               /\ maps(almanac2) = maps(almanac)

\* an odd-length list whose two pairs come in descending order of start, in an
\* almanac that has a rule
C22_Witness ==
    /\ pc = "almanac2"
    /\ Len(almanac.seeds) = 5
    /\ almanac.seeds[1] > almanac.seeds[3]
    /\ Len(almanac2.seeds) = 2
    /\ almanac2.seeds[1] = PairInterval(almanac.seeds, 2)
    /\ almanac2.seeds[2] = PairInterval(almanac.seeds, 1)
    /\ \E k \in 1..NumStages : maps(almanac2)[k] # <<>>

----------------------------------------------------------------------------
(* Claims about Almanac::from_str (SpecParse).                             *)

\* a line has been taken
Taken == Len(trace) = 2

\* the place of a state in the fixed order, Seeds being 1 and Done 9
Position(state) == Discriminant(ParseStateOrder, state)

\* the almanac b with the rule pushed to the list of the state
Pushed(b, state, rule) == [b EXCEPT ![FieldOf(state)] = Append(@, rule)]

AppendedTo(b, state, line) ==
    IF state = "Seeds" THEN [b EXCEPT !.seeds = @ \o line.numbers]
    ELSE Pushed(b, state, RangeMapFromStr(line.numbers[1], line.numbers[2],
                                          line.numbers[3]))

----------------------------------------------------------------------------
(* Claims about Hand (SpecHand).                                           *)

\* C24: equality and ordering of hands are consistent: a == b holds if and
\* only if a.cmp(b) is Equal, also for two hands made of the same cards in
\* another order.
C24_EqIffCmpEqual ==
    pc = "cmp" => (ret[1] <=> trace[1] = "Equal")

\* what the code does: a == b holds exactly when the hands hold the same
\* cards as often, in whatever order, and cmp is Equal exactly when the card
\* vectors are the same
C24_EqIsSameCards ==
    pc = "cmp"
        => /\ ret[1] <=> card_counts(call.self) = card_counts(call.other)
           /\ trace[1] = "Equal" <=> call.self.cards = call.other.cards

\* AAAAT and AATAA: equal under ==, Greater under cmp
C24_TestEqHands ==
    /\ pc = "cmp"
    /\ call.self.cards = <<"Ace", "Ace", "Ace", "Ace", "Ten">>
    /\ call.other.cards = <<"Ace", "Ace", "Ten", "Ace", "Ace">>
    /\ ret[1]
    /\ trace[1] = "Greater"

----------------------------------------------------------------------------
(* The point resolver on overlapping sources (Spec).                       *)

\* the places, in the order of the input lines, of the rules whose source
\* holds v
Matching(stage, v) ==
    {j \in 1..Len(stage) : stage[j].src.start <= v /\ v < stage[j].src.end}

\* v shifted by the rule at place j
ShiftedBy(stage, j, v) == stage[j].dest.start + (v - stage[j].src.start)

\* v behind a stage: shifted by the first rule whose source holds it
FirstImage(stage, v) ==
    IF Matching(stage, v) = {} THEN v
    ELSE ShiftedBy(stage, Least(Matching(stage, v)), v)

\* the seed behind the first k stages, each taking its first matching rule
RECURSIVE FirstImages(_, _, _)
FirstImages(a, seed, k) ==
    IF k = 0 THEN seed
    ELSE FirstImage(maps(a)[k], FirstImages(a, seed, k - 1))

\* C25: when the sources of several rules of a stage hold the same value,
\* the point resolver maps the value with the first of them in the order of
\* the input lines, and the later ones have no effect: what it returns is
\* the least, over the seeds, of the seed taken through the seven stages by
\* the first matching rule of each.
C25_FirstMatchingRule ==
    (pc = "lowest" /\ almanac.seeds # <<>>)
        => result = Returned(Least({FirstImages(almanac, almanac.seeds[i], NumStages) :
                                       i \in 1..Len(almanac.seeds)}))

\* one seed and a stage of two rules whose sources both hold the value that
\* reaches the stage and that shift it differently: the location returned is
\* the one by the first rule, the one by the second would be another
C25_Witness ==
    /\ pc = "lowest"
    /\ Len(almanac.seeds) = 1
    /\ \E k \in 1..NumStages :
          LET stage == maps(almanac)[k]
              v     == FirstImages(almanac, almanac.seeds[1], k - 1)
          IN  /\ Matching(stage, v) = {1, 2}
              /\ ShiftedBy(stage, 1, v) # ShiftedBy(stage, 2, v)
              /\ \A j \in (k + 1)..NumStages : maps(almanac)[j] = <<>>
              /\ result = Returned(ShiftedBy(stage, 1, v))

====
